---- MODULE Spec2Model ----
(***************************************************************************)
(* Model of Exchange1c (src/First task/first.ts): the 1C exchange          *)
(* protocol handler.  Every inbound request is handled by its own task;    *)
(* tasks share the Firestore session collection and the Cloud Storage      *)
(* buckets.  Every await on Firestore / Cloud Storage is a suspension      *)
(* point: the code between two awaits is one atomic step of a task.        *)
(***************************************************************************)
EXTENDS Integers, Sequences, FiniteSets, TLC

(***************************************************************************)
(* Bounds of the model.                                                    *)
(***************************************************************************)
\* number of sessions that checkauth may issue in one behaviour
MaxSessions == 2
\* number of clock advances in one behaviour
MaxTicks == 3

\* the tasks that handle requests concurrently
Tasks == {"t1", "t2"}

(***************************************************************************)
(* Program constants.                                                      *)
(***************************************************************************)
\* protected exchangeSessionDurationSeconds = 3600
exchangeSessionDurationSeconds == 3600

\* the empty string '' (also the value of an absent cookie / query parameter)
EmptyString == 0

\* the clock advances in steps of half a session duration
TickSeconds == exchangeSessionDurationSeconds \div 2
MaxTime == MaxTicks * TickSeconds

\* uuidv4() values: every call yields the next unused value
MaxUuid == 2 * MaxSessions
Uuids == 1..MaxUuid

\* a value that is neither a stored document nor a session
Absent == [absent |-> TRUE]

(***************************************************************************)
(* Settings (getSettings).                                                 *)
(***************************************************************************)
StringKeys == {"username", "password"}

\* the default settings of getSettings
DefaultSettings ==
    [username |-> "",
     password |-> "",
     zip |-> FALSE,
     fileSizeLimit |-> 9 * 1024 * 1024,
     sessionDurationSeconds |-> 60 * 60,
     sessionIdCookieName |-> "sessionId",
     csrfProtection |-> FALSE,
     csrfTokenName |-> "csrfToken"]

\* value !== undefined && value !== null && value !== ''
IsSet(attributeName, value) ==
    ~(attributeName \in StringKeys /\ value = "")

\* loaded settings override the defaults attribute by attribute
MergeSettings(loadedSettings) ==
    [attributeName \in DOMAIN DefaultSettings |->
        IF attributeName \in DOMAIN loadedSettings
           /\ IsSet(attributeName, loadedSettings[attributeName])
        THEN loadedSettings[attributeName]
        ELSE DefaultSettings[attributeName]]

\* a mutant of SettingsComplete: the username/password check is dropped
SettingsCompleteNoCheck(s) == TRUE

\* getSettings throws unless username and password are both set
SettingsComplete(s) == s.username # "" /\ s.password # ""

\* the exchange1c documents the settings may be loaded from: one that leaves
\* the defaults, one that overrides them, and two that lack a credential
LoadedSettings ==
    { [username |-> "x", password |-> "y"],
      [username |-> "x", password |-> "y", csrfProtection |-> TRUE,
       sessionDurationSeconds |-> 2 * 60 * 60, zip |-> TRUE],
      [username |-> "", password |-> "y"],
      [password |-> ""] }

\* the settings an Exchange1c instance can be created with
getSettings ==
    { MergeSettings(l) : l \in { x \in LoadedSettings : SettingsComplete(MergeSettings(x)) } }

(***************************************************************************)
(* Results.  A line is a sequence of string pieces, a result a sequence    *)
(* of lines (result(...lines) joins them with '\n').                       *)
(***************************************************************************)
resultOf(lines) == lines

failureResult(message) == resultOf(<< <<"failure">>, message >>)

NoResult == << >>

(***************************************************************************)
(* File names are sequences of path tokens; "/" is the separator and       *)
(* "import_files" the literal prefix the router looks for.                 *)
(***************************************************************************)
Filenames ==
    { << >>,
      <<"import_files", "/", "orders", "/", "order1.xml">>,
      <<"import_files", "2.xml">>,
      <<"report1.xml">> }

\* filename.startsWith('import_files')
startsWithImportFiles(filename) ==
    Len(filename) >= 1 /\ filename[1] = "import_files"

\* index of the last "/" of a path, 0 when there is none
LastSlash(path) ==
    LET idx == { i \in 1..Len(path) : path[i] = "/" }
    IN IF idx = {} THEN 0 ELSE CHOOSE i \in idx : \A j \in idx : j <= i

\* posix.dirname
dirname(path) ==
    LET k == LastSlash(path)
    IN IF k = 0 THEN <<".">>
       ELSE IF k = 1 THEN <<"/">>
       ELSE SubSeq(path, 1, k - 1)

\* posix.basename
basename(path) ==
    SubSeq(path, LastSlash(path) + 1, Len(path))

\* posix.join(folder, name) for a non-empty name
join(folder, name) ==
    IF folder = << >> \/ folder = <<".">> THEN name
    ELSE folder \o <<"/">> \o name

\* remotePath of saveToStorage
remotePath(folder, timestamp, fileName) ==
    join(folder, IF timestamp # "" THEN <<timestamp, "_">> \o fileName ELSE fileName)

\* DateTime.utc().toFormat('yyyy-MM-dd_HH-mm-ss-SSSZZZ')
toFormat(t) == ToString(t)

(***************************************************************************)
(* Requests.                                                               *)
(***************************************************************************)
SupportedTypes == {"catalog", "report"}
Types == SupportedTypes \cup {"foo"}
SessionModes == {"init", "file", "import", "bar"}

\* HTTP Basic credentials a request may carry (none: both empty)
Credentials ==
    { [username |-> "x", password |-> "y"],
      [username |-> "x", password |-> "bad"],
      [username |-> "bad", password |-> "y"],
      [username |-> "", password |-> ""] }

NoCredentials == [username |-> "", password |-> ""]

\* A session an earlier instance left in the collection: it was saved half
\* a session duration before the behaviour starts.
EarlierSession ==
    [sessionId |-> MaxUuid + 1,
     csrfToken |-> MaxUuid + 2,
     expirationTimestamp |-> exchangeSessionDurationSeconds - TickSeconds]

\* A document of the collection that has no expirationTimestamp field
\* (doc.data() is cast to ExchangeSessionStoredInFirestore, not validated).
RecordWithoutExpiration ==
    [sessionId |-> MaxUuid + 3,
     csrfToken |-> MaxUuid + 4]

\* values of the session cookie and of the sessid query parameter
Ids == {EmptyString} \cup Uuids \cup {RecordWithoutExpiration.sessionId}

CheckauthRequests ==
    { [type |-> ty, mode |-> "checkauth", credentials |-> c, cookie |-> EmptyString,
       sessid |-> EmptyString, filename |-> << >>, rawBody |-> FALSE] :
        ty \in Types, c \in Credentials }

SessionRequests ==
    { [type |-> ty, mode |-> m, credentials |-> NoCredentials, cookie |-> k,
       sessid |-> sd, filename |-> f, rawBody |-> b] :
        ty \in Types, m \in SessionModes, k \in Ids, sd \in Ids,
        f \in Filenames, b \in BOOLEAN }

\* requests are enumerated up to the parameters the handler reads
Relevant(r) ==
    /\ r.mode \in {"init", "bar"} => r.filename = << >> /\ ~r.rawBody
    /\ r.mode = "import" => ~r.rawBody /\ r.filename \in {<< >>, <<"report1.xml">>}
    /\ r.mode = "file" /\ ~r.rawBody => r.filename \in {<< >>, <<"report1.xml">>}
    /\ r.type \notin SupportedTypes => r.cookie = EmptyString /\ r.sessid = EmptyString
    /\ r.cookie = EmptyString => r.sessid = EmptyString
    /\ r.cookie # MaxUuid
    /\ r.sessid \in {EmptyString, 1, r.cookie + 1}

Requests == CheckauthRequests \cup { r \in SessionRequests : Relevant(r) }

\* auth(request): name and pass, '' when absent
getBasicCredentials(request) ==
    [username |-> request.credentials.username,
     password |-> request.credentials.password]

(***************************************************************************)
(* State.                                                                  *)
(***************************************************************************)
VARIABLES
    now,        \* DateTime.utc(), in seconds
    settings,   \* this.settings
    store,      \* the Firestore collection sessionsStoragePath: id -> document
    blobs,      \* the objects written to Cloud Storage
    nextUuid,   \* the next value uuidv4() returns
    task,       \* the state of every request handler
    workload,   \* the requests this behaviour is explored on
    issued      \* history: the sessions saveSession has written

vars == <<now, settings, store, blobs, nextUuid, task, workload, issued>>

\* The request universe is explored as three workloads:
\*   "serial"   one handler at a time serves every request;
\*   "sessions" a handler serving the requests that reach the session store
\*              (checkauth, and init as the session-validated request)
\*              overlaps with the checkauth of a second client;
\*   "logins"   two clients authenticate at the same time against a
\*              collection that still holds an earlier session.
\* A fourth workload, "incomplete", has one handler serve the requests that
\* reach the session store, and a file upload, over a collection that holds
\* a document without expirationTimestamp (InitIncomplete below).
Workloads == {"serial", "sessions", "logins"}

SessionStoreRequests ==
    { r \in Requests :
        /\ r.type = "catalog"
        /\ r.mode \in {"checkauth", "init"}
        /\ r.credentials.username \in {"x", ""} }

LoginRequests ==
    { r \in SessionStoreRequests : r.mode = "checkauth" /\ r.credentials.password = "y" }

\* the requests that reach the session store, and the upload of a file
IncompleteStoreRequests ==
    SessionStoreRequests \cup
    { r \in Requests :
        /\ r.type = "catalog"
        /\ r.mode = "file"
        /\ r.filename = <<"report1.xml">>
        /\ r.rawBody }

RequestsOf(t) ==
    CASE workload = "serial" -> IF t = "t1" THEN Requests ELSE {}
      [] workload = "sessions" -> IF t = "t1" THEN SessionStoreRequests ELSE LoginRequests
      [] workload = "logins" -> LoginRequests
      [] workload = "incomplete" -> IF t = "t1" THEN IncompleteStoreRequests ELSE {}

\* the collection an instance finds when it starts
InitialStore ==
    IF workload = "logins"
    THEN (EarlierSession.sessionId :> EarlierSession)
    ELSE IF workload = "incomplete"
    THEN (RecordWithoutExpiration.sessionId :> RecordWithoutExpiration)
    ELSE << >>

\* Handlers never read Cloud Storage, so a behaviour is explored up to the
\* first object written: no request is accepted after it.
StorageWritten == blobs # {}

NoSweep == [pc |-> "none", queryTime |-> 0, docs |-> {}, pending |-> {}]

IdleTask ==
    [pc |-> "idle",
     request |-> Absent,
     session |-> Absent,            \* const session of checkauth
     issueTime |-> 0,               \* the time checkauth built session at
     sweep |-> NoSweep,             \* this.deleteExpiredSessions()
     save |-> "none",               \* this.saveSession(session)
     firstDone |-> "none",          \* which of the two settled first
     doc |-> Absent,                \* const doc of loadSession
     storedSession |-> Absent,      \* const storedSession of validateRequestSessionInfo
     sessionValidation |-> Absent,  \* const sessionValidation of main
     upload |-> Absent,             \* the object saveToStorage is writing
     threw |-> FALSE,               \* the handler rejected with an error
     result |-> NoResult]

Init ==
    /\ now = 0
    /\ settings \in getSettings
    /\ workload \in Workloads
    /\ store = InitialStore
    /\ blobs = {}
    /\ nextUuid = 1
    /\ task = [t \in Tasks |-> IdleTask]
    /\ issued = { store[id] : id \in DOMAIN store }

\* the state after construction when the collection holds a document that
\* has no expirationTimestamp
InitIncomplete ==
    /\ now = 0
    /\ settings \in getSettings
    /\ workload = "incomplete"
    /\ store = InitialStore
    /\ blobs = {}
    /\ nextUuid = 1
    /\ task = [t \in Tasks |-> IdleTask]
    /\ issued = { store[id] : id \in DOMAIN store }

(***************************************************************************)
(* Firestore documents.                                                    *)
(***************************************************************************)
\* a mutant of DocGet: a session that has been saved is remembered by the
\* process and served when the collection no longer has it
DocGetCached(st, id) ==
    IF id \in DOMAIN st THEN st[id]
    ELSE IF \E s \in issued : s.sessionId = id
    THEN CHOOSE s \in issued : s.sessionId = id
    ELSE Absent

\* doc(id).get(): the document, or a snapshot with exists = false
DocGet(st, id) == IF id \in DOMAIN st THEN st[id] ELSE Absent

\* doc(id).set(data)
DocSet(st, id, data) ==
    [k \in DOMAIN st \cup {id} |-> IF k = id THEN data ELSE st[k]]

\* doc.ref.delete(): the document is gone afterwards
DocDelete(st, id) == [k \in DOMAIN st \ {id} |-> st[k]]

\* a mutant of deleteFails: delete({exists: true}) rejects for a missing document
deleteFailsIfMissing(st, id) == id \notin DOMAIN st

\* doc.ref.delete() is called without a precondition: it resolves whether or
\* not the document still exists
deleteFails(st, id) == FALSE

\* the handler rejects: the error leaves main
Threw(tk) == [tk EXCEPT !.pc = "done", !.threw = TRUE]

\* a stored document that carries an expirationTimestamp
HasExpiration(d) == "expirationTimestamp" \in DOMAIN d

\* a mutant of isExpired: a session is kept up to and including its expiry
isExpiredLate(storedSession, t) ==
    \/ storedSession = Absent
    \/ ~HasExpiration(storedSession)
    \/ storedSession.expirationTimestamp < t

\* !storedSession || !storedSession.expirationTimestamp ||
\* storedSession.expirationTimestamp.toDate() <= DateTime.utc().toJSDate()
isExpired(storedSession, t) ==
    \/ storedSession = Absent
    \/ ~HasExpiration(storedSession)
    \/ storedSession.expirationTimestamp <= t

\* a mutant of expiredQuery: the where clause is missing
expiredQueryAll(st, t) == DOMAIN st

\* a mutant of expiredQuery: the where clause compares with '<'
expiredQueryStrict(st, t) ==
    { id \in DOMAIN st : HasExpiration(st[id]) /\ st[id].expirationTimestamp < t }

\* a mutant of expiredQuery: documents without the field are selected too
expiredQueryMissingField(st, t) ==
    { id \in DOMAIN st : ~HasExpiration(st[id]) \/ st[id].expirationTimestamp <= t }

\* a mutant of expiredQuery: the where clause compares with '>='
expiredQueryReversed(st, t) ==
    { id \in DOMAIN st : HasExpiration(st[id]) /\ st[id].expirationTimestamp >= t }

\* collection.select('id').where('expirationTimestamp', '<=', t).get()
expiredQuery(st, t) ==
    { id \in DOMAIN st : HasExpiration(st[id]) /\ st[id].expirationTimestamp <= t }

(***************************************************************************)
(* The synchronous parts of the handlers, as functions on a task's state.  *)
(***************************************************************************)
\* the handler returns res
Returned(tk, res) == [tk EXCEPT !.pc = "done", !.result = res]

\* getRequestSessionInfo: session id from the cookie, csrf token from sessid
getRequestSessionInfo(request) ==
    [sessionId |-> request.cookie,
     csrfToken |-> IF request.sessid # EmptyString THEN request.sessid ELSE EmptyString]

\* a mutant of csrfRejected: the token is never compared
csrfRejectedNever(requestSessionInfo, storedSession) == FALSE

\* a mutant of csrfRejected: the token is compared whatever the settings say
csrfRejectedAlways(requestSessionInfo, storedSession) ==
    requestSessionInfo.csrfToken # storedSession.csrfToken

\* this.settings.csrfProtection && requestSessionInfo.csrfToken !== storedSession.csrfToken
csrfRejected(requestSessionInfo, storedSession) ==
    settings.csrfProtection /\ requestSessionInfo.csrfToken # storedSession.csrfToken

\* the message of an absent session
NoSessionError ==
    <<"No active session found. Use 'mode=checkauth' to start a new session.">>
CsrfError == <<"Invalid CSRF token.">>

\* validateRequestSessionInfo, after loadSession has returned storedSession
validateRequestSessionInfo(requestSessionInfo, storedSession) ==
    IF storedSession = Absent
    THEN [success |-> FALSE, error |-> NoSessionError]
    ELSE IF csrfRejected(requestSessionInfo, storedSession)
    THEN [success |-> FALSE, error |-> CsrfError]
    ELSE [success |-> TRUE, error |-> << >>]

\* Step B
init ==
    resultOf(<< <<"zip=", IF settings.zip THEN "yes" ELSE "no">>,
                <<"file_limit=", ToString(settings.fileSizeLimit)>> >>)

\* the object saveToStorage writes
Upload(bucketName, folder, timestamp, fileName) ==
    [bucketName |-> bucketName, remotePath |-> remotePath(folder, timestamp, fileName)]

\* a mutant of file: the request body is not checked
fileBodyUnchecked(tk, filename, requestBody) ==
    IF filename = << >> THEN Returned(tk, failureResult(<<"Filename is empty.">>))
    ELSE IF startsWithImportFiles(filename)
    THEN [tk EXCEPT !.pc = "saveToStorage",
                    !.upload = Upload("1c-exchange-files", dirname(filename), "",
                                      basename(filename))]
    ELSE [tk EXCEPT !.pc = "saveToStorage",
                    !.upload = Upload("1c-exchange-catalog", << >>, toFormat(now), filename)]

\* Step C, up to the await of saveToStorage
file(tk, filename, requestBody) ==
    IF filename = << >> THEN Returned(tk, failureResult(<<"Filename is empty.">>))
    ELSE IF ~requestBody THEN Returned(tk, failureResult(<<"Request body is undefined">>))
    ELSE IF startsWithImportFiles(filename)
    THEN [tk EXCEPT !.pc = "saveToStorage",
                    !.upload = Upload("1c-exchange-files", dirname(filename), "",
                                      basename(filename))]
    ELSE [tk EXCEPT !.pc = "saveToStorage",
                    !.upload = Upload("1c-exchange-catalog", << >>, toFormat(now), filename)]

\* Step C for reports, up to the await of saveToStorage
fileReport(tk, filename, requestBody) ==
    IF filename = << >> THEN Returned(tk, failureResult(<<"Filename is empty.">>))
    ELSE IF ~requestBody THEN Returned(tk, failureResult(<<"Request body is undefined">>))
    ELSE IF startsWithImportFiles(filename)
    THEN [tk EXCEPT !.pc = "saveToStorage",
                    !.upload = Upload("1c-exchange-report", dirname(filename), "",
                                      basename(filename))]
    ELSE [tk EXCEPT !.pc = "saveToStorage",
                    !.upload = Upload("1c-exchange-report", << >>, "", filename)]

\* a mutant of import_: the acknowledgement is not the status token
import_ok(tk, filename) ==
    IF filename = << >> THEN Returned(tk, failureResult(<<"Filename is empty.">>))
    ELSE Returned(tk, resultOf(<< <<"ok">> >>))

\* Step D
import_(tk, filename) ==
    IF filename = << >> THEN Returned(tk, failureResult(<<"Filename is empty.">>))
    ELSE Returned(tk, resultOf(<< <<"success">> >>))

\* main, from Step B on
dispatch(tk) ==
    LET type == tk.request.type
        mode == tk.request.mode
        filename == tk.request.filename
    IN IF mode = "init" THEN Returned(tk, init)
       ELSE IF mode = "file" /\ type = "catalog" THEN file(tk, filename, tk.request.rawBody)
       ELSE IF mode = "file" /\ type = "report" THEN fileReport(tk, filename, tk.request.rawBody)
       ELSE IF mode = "import" THEN import_(tk, filename)
       ELSE Returned(tk, failureResult(
                <<"Type '", type, "' and mode '", mode, "' are not supported.">>))

\* a mutant of validationFailed: main goes on whatever the validation said
validationFailedIgnored(sessionValidation) == FALSE

\* if (!sessionValidation.success)
validationFailed(sessionValidation) == ~sessionValidation.success

\* main, from the return of loadSession on
afterLoadSession(tk, storedSession) ==
    LET sessionValidation ==
            validateRequestSessionInfo(getRequestSessionInfo(tk.request), storedSession)
        tk1 == [tk EXCEPT !.storedSession = storedSession,
                          !.sessionValidation = sessionValidation]
    IN IF validationFailed(sessionValidation)
       THEN Returned(tk1, failureResult(sessionValidation.error))
       ELSE dispatch(tk1)

\* credentials.username !== this.settings.username ||
\* credentials.password !== this.settings.password
unauthorized(credentials) ==
    credentials.username # settings.username \/ credentials.password # settings.password

\* a mutant of newSession: every login renews the one session of the user
newSessionRenewed(sessionId, csrfToken, t) ==
    [sessionId |-> 1,
     csrfToken |-> csrfToken,
     expirationTimestamp |-> t + exchangeSessionDurationSeconds]

\* a mutant of newSession: the session id is taken from the clock
newSessionClockId(sessionId, csrfToken, t) ==
    [sessionId |-> t + 1,
     csrfToken |-> csrfToken,
     expirationTimestamp |-> t + exchangeSessionDurationSeconds]

\* const session of checkauth
newSession(sessionId, csrfToken, t) ==
    [sessionId |-> sessionId,
     csrfToken |-> csrfToken,
     expirationTimestamp |-> t + exchangeSessionDurationSeconds]

\* the success result of checkauth
checkauthResult(session, t) ==
    resultOf(<< <<"success">>,
                <<settings.sessionIdCookieName>>,
                <<ToString(session.sessionId)>>,
                <<settings.csrfTokenName, "=", ToString(session.csrfToken)>>,
                <<"timestamp=", ToString(t)>> >>)

\* a mutant of joined: checkauth returns as soon as the sweep has settled
joinedSweepOnly(tk) == tk.sweep.pc = "done"

\* await Promise.all(promises): the sweep and the save have both settled
joined(tk) == tk.sweep.pc = "done" /\ tk.save = "done"

(***************************************************************************)
(* Actions.                                                                *)
(***************************************************************************)
\* Step A, up to Promise.all
checkauth(t, tk, credentials) ==
    IF unauthorized(credentials)
    THEN /\ task' = [task EXCEPT ![t] = Returned(tk, failureResult(<<"Unauthorized">>))]
         /\ UNCHANGED nextUuid
    ELSE /\ nextUuid + 1 <= MaxUuid
         /\ nextUuid' = nextUuid + 2
         /\ task' = [task EXCEPT ![t] =
                [tk EXCEPT !.pc = "checkauth",
                           !.session = newSession(nextUuid, nextUuid + 1, now),
                           !.issueTime = now,
                           !.sweep = [pc |-> "query", queryTime |-> now,
                                      docs |-> {}, pending |-> {}],
                           !.save = "set"]]

\* a mutant of main: checkauth is served before the type is checked
mainTypeCheckedLate(t, request) ==
    LET tk == [IdleTask EXCEPT !.request = request]
        type == request.type
        mode == request.mode
    IN /\ task[t].pc = "idle"
       /\ ~StorageWritten
       /\ IF mode = "checkauth"
          THEN checkauth(t, tk, getBasicCredentials(request))
          ELSE IF type # "catalog" /\ type # "report"
          THEN /\ task' = [task EXCEPT ![t] = Returned(tk, failureResult(
                      <<"Parameter type \"", type,
                        "\" is not supported. Supported parameters: catalog, report">>))]
               /\ UNCHANGED nextUuid
          ELSE /\ IF getRequestSessionInfo(request).sessionId = EmptyString
                  THEN task' = [task EXCEPT ![t] = afterLoadSession(tk, Absent)]
                  ELSE task' = [task EXCEPT ![t] = [tk EXCEPT !.pc = "loadSession_get"]]
               /\ UNCHANGED nextUuid
       /\ UNCHANGED <<now, settings, store, blobs, workload, issued>>

\* main, up to its first await
main(t, request) ==
    LET tk == [IdleTask EXCEPT !.request = request]
        type == request.type
        mode == request.mode
    IN /\ task[t].pc = "idle"
       /\ ~StorageWritten
       /\ IF type # "catalog" /\ type # "report"
          THEN /\ task' = [task EXCEPT ![t] = Returned(tk, failureResult(
                      <<"Parameter type \"", type,
                        "\" is not supported. Supported parameters: catalog, report">>))]
               /\ UNCHANGED nextUuid
          ELSE IF mode = "checkauth"
          THEN checkauth(t, tk, getBasicCredentials(request))
          ELSE /\ IF getRequestSessionInfo(request).sessionId = EmptyString
                  THEN task' = [task EXCEPT ![t] = afterLoadSession(tk, Absent)]
                  ELSE task' = [task EXCEPT ![t] = [tk EXCEPT !.pc = "loadSession_get"]]
               /\ UNCHANGED nextUuid
       /\ UNCHANGED <<now, settings, store, blobs, workload, issued>>

\* uuidv4 values cannot be guessed: the session cookie of a request is
\* empty, the id of a session that has been saved, or a value that is no
\* session id (here: the csrf token of a saved session)
Presentable(id) ==
    \/ id = EmptyString
    \/ \E s \in issued : id = s.sessionId \/ id = s.csrfToken

\* a request arrives
Receive(t) ==
    /\ task[t].pc = "idle"
    /\ ~StorageWritten
    /\ \E request \in RequestsOf(t) :
          /\ Presentable(request.cookie)
          /\ main(t, request)

\* deleteExpiredSessions: Firestore answers the query
SweepQuery(t) ==
    LET tk == task[t]
        docs == expiredQuery(store, tk.sweep.queryTime)
    IN /\ tk.pc = "checkauth"
       /\ tk.sweep.pc = "query"
       /\ task' = [task EXCEPT ![t] =
              [tk EXCEPT !.sweep = [tk.sweep EXCEPT
                             !.pc = IF docs = {} THEN "done" ELSE "delete",
                             !.docs = docs,
                             !.pending = docs],
                         !.firstDone = IF docs = {} /\ tk.firstDone = "none"
                                       THEN "sweep" ELSE tk.firstDone]]
       /\ UNCHANGED <<now, settings, store, blobs, nextUuid, workload, issued>>

\* deleteExpiredSessions: Firestore performs one of the doc.ref.delete() calls
SweepDelete(t) ==
    LET tk == task[t]
    IN /\ tk.pc = "checkauth"
       /\ tk.sweep.pc = "delete"
       /\ \E id \in tk.sweep.pending :
            LET left == tk.sweep.pending \ {id}
            IN IF deleteFails(store, id)
               THEN /\ task' = [task EXCEPT ![t] = Threw(tk)]
                    /\ UNCHANGED store
               ELSE /\ store' = DocDelete(store, id)
                    /\ task' = [task EXCEPT ![t] =
                           [tk EXCEPT !.sweep = [tk.sweep EXCEPT
                                          !.pc = IF left = {} THEN "done" ELSE "delete",
                                          !.pending = left],
                                      !.firstDone = IF left = {} /\ tk.firstDone = "none"
                                                    THEN "sweep" ELSE tk.firstDone]]
       /\ UNCHANGED <<now, settings, blobs, nextUuid, workload, issued>>

\* saveSession: Firestore performs doc(session.sessionId).set(session)
SaveSession(t) ==
    LET tk == task[t]
    IN /\ tk.pc = "checkauth"
       /\ tk.save = "set"
       /\ store' = DocSet(store, tk.session.sessionId, tk.session)
       /\ issued' = issued \cup {tk.session}
       /\ task' = [task EXCEPT ![t] =
              [tk EXCEPT !.save = "done",
                         !.firstDone = IF tk.firstDone = "none"
                                       THEN "save" ELSE tk.firstDone]]
       /\ UNCHANGED <<now, settings, blobs, nextUuid, workload>>

\* checkauth, after Promise.all
CheckauthReturn(t) ==
    LET tk == task[t]
    IN /\ tk.pc = "checkauth"
       /\ joined(tk)
       /\ task' = [task EXCEPT ![t] = Returned(tk, checkauthResult(tk.session, now))]
       /\ UNCHANGED <<now, settings, store, blobs, nextUuid, workload, issued>>

\* loadSession: Firestore answers doc(id).get()
LoadSessionGet(t) ==
    LET tk == task[t]
    IN /\ tk.pc = "loadSession_get"
       /\ task' = [task EXCEPT ![t] =
              [tk EXCEPT !.pc = "loadSession_check",
                         !.doc = DocGet(store, getRequestSessionInfo(tk.request).sessionId)]]
       /\ UNCHANGED <<now, settings, store, blobs, nextUuid, workload, issued>>

\* loadSession, from the return of get() to the delete or the return
LoadSessionCheck(t) ==
    LET tk == task[t]
    IN /\ tk.pc = "loadSession_check"
       /\ task' = [task EXCEPT ![t] =
              IF tk.doc = Absent THEN afterLoadSession(tk, Absent)
              ELSE IF isExpired(tk.doc, now) THEN [tk EXCEPT !.pc = "loadSession_delete"]
              ELSE afterLoadSession(tk, [sessionId |-> tk.doc.sessionId,
                                         csrfToken |-> tk.doc.csrfToken,
                                         expirationTimestamp |-> tk.doc.expirationTimestamp])]
       /\ UNCHANGED <<now, settings, store, blobs, nextUuid, workload, issued>>

\* loadSession: Firestore performs doc.ref.delete()
LoadSessionDelete(t) ==
    LET tk == task[t]
    IN /\ tk.pc = "loadSession_delete"
       /\ IF deleteFails(store, getRequestSessionInfo(tk.request).sessionId)
          THEN /\ task' = [task EXCEPT ![t] = Threw(tk)]
               /\ UNCHANGED store
          ELSE /\ store' = DocDelete(store, getRequestSessionInfo(tk.request).sessionId)
               /\ task' = [task EXCEPT ![t] = [tk EXCEPT !.pc = "loadSession_deleted"]]
       /\ UNCHANGED <<now, settings, blobs, nextUuid, workload, issued>>

\* loadSession returns undefined after the delete
LoadSessionDeleted(t) ==
    LET tk == task[t]
    IN /\ tk.pc = "loadSession_deleted"
       /\ task' = [task EXCEPT ![t] = afterLoadSession(tk, Absent)]
       /\ UNCHANGED <<now, settings, store, blobs, nextUuid, workload, issued>>

\* saveToStorage: the write stream finishes; file / fileReport return 'success'
SaveToStorage(t) ==
    LET tk == task[t]
    IN /\ tk.pc = "saveToStorage"
       /\ blobs' = blobs \cup {tk.upload}
       /\ task' = [task EXCEPT ![t] = Returned(tk, resultOf(<< <<"success">> >>))]
       /\ UNCHANGED <<now, settings, store, nextUuid, workload, issued>>

\* the response has been sent; the task takes the next request
Respond(t) ==
    /\ task[t].pc = "done"
    /\ task' = [task EXCEPT ![t] = IdleTask]
    /\ UNCHANGED <<now, settings, store, blobs, nextUuid, workload, issued>>

\* time passes
Tick ==
    /\ now + TickSeconds <= MaxTime
    /\ now' = now + TickSeconds
    /\ UNCHANGED <<settings, store, blobs, nextUuid, task, workload, issued>>

Next ==
    \/ Tick
    \/ \E t \in Tasks :
        \/ Receive(t)
        \/ SweepQuery(t)
        \/ SweepDelete(t)
        \/ SaveSession(t)
        \/ CheckauthReturn(t)
        \/ LoadSessionGet(t)
        \/ LoadSessionCheck(t)
        \/ LoadSessionDelete(t)
        \/ LoadSessionDeleted(t)
        \/ SaveToStorage(t)
        \/ Respond(t)

Spec == Init /\ [][Next]_vars

SpecIncomplete == InitIncomplete /\ [][Next]_vars

(***************************************************************************)
(* Properties.                                                             *)
(***************************************************************************)
\* the task handles (or has handled) a request for a supported type that is
\* not a checkauth
SessionRequest(tk) ==
    /\ tk.request # Absent
    /\ tk.request.type \in SupportedTypes
    /\ tk.request.mode # "checkauth"

\* the task t took the step
Stepped(t) == task'[t] # task[t]

\* the session (id, token) validates in the current state
Validates(sessionId, csrfToken) ==
    LET stored == DocGet(store, sessionId)
    IN /\ sessionId # EmptyString
       /\ ~isExpired(stored, now)
       /\ validateRequestSessionInfo(
              [sessionId |-> sessionId, csrfToken |-> csrfToken], stored).success

\* C1: for a supported type and a mode other than checkauth the session is
\* validated first: a failed validation returns failure with the validator's
\* error and nothing of init, file, fileReport or import runs (no object is
\* handed to Cloud Storage); a result that is not a session error is only
\* produced for a session that validated.
C1_SessionValidatedFirst ==
    \A t \in Tasks :
        LET tk == task[t]
        IN SessionRequest(tk) =>
            /\ tk.pc = "saveToStorage" =>
                  tk.sessionValidation # Absent /\ tk.sessionValidation.success
            /\ tk.upload # Absent =>
                  tk.sessionValidation # Absent /\ tk.sessionValidation.success
            /\ (tk.pc = "done" /\ ~tk.threw) =>
                  /\ tk.sessionValidation # Absent
                  /\ ~tk.sessionValidation.success =>
                        /\ tk.result = << <<"failure">>, tk.sessionValidation.error >>
                        /\ tk.sessionValidation.error \in {NoSessionError, CsrfError}
                        /\ tk.upload = Absent
                  /\ tk.result \notin { << <<"failure">>, NoSessionError >>,
                                        << <<"failure">>, CsrfError >> } =>
                        /\ tk.sessionValidation.success
                        /\ tk.storedSession # Absent

\* C1 witness: a file request with a body and a file name was refused for
\* its session
C1_Witness ==
    \E t \in Tasks :
        /\ SessionRequest(task[t])
        /\ task[t].pc = "done"
        /\ task[t].request.mode = "file"
        /\ task[t].request.rawBody
        /\ task[t].request.filename # << >>
        /\ ~task[t].sessionValidation.success
        /\ task[t].result[1] = <<"failure">>

\* credentials the claim calls invalid
InvalidCredentials(credentials) ==
    \/ credentials.username # settings.username
    \/ credentials.password # settings.password
    \/ (credentials.username = "" /\ credentials.password = "")

\* the task handles (or has handled) a checkauth with invalid credentials
InvalidCheckauth(tk) ==
    /\ tk.request # Absent
    /\ tk.request.type \in SupportedTypes
    /\ tk.request.mode = "checkauth"
    /\ InvalidCredentials(tk.request.credentials)

\* C2: checkauth with invalid credentials (wrong username, wrong password or
\* both empty) returns failure / Unauthorized, builds no session, issues
\* neither the save nor the sweep, and its step leaves the session store as
\* it was.
C2_UnauthorizedKeepsStore ==
    /\ [](\A t \in Tasks :
            InvalidCheckauth(task[t]) =>
                /\ task[t].pc = "done"
                /\ task[t].result = << <<"failure">>, <<"Unauthorized">> >>
                /\ task[t].session = Absent
                /\ task[t].save = "none"
                /\ task[t].sweep.pc = "none")
    /\ [][\A t \in Tasks :
            (Stepped(t) /\ InvalidCheckauth(task'[t])) => store' = store]_vars

\* C2 witness: a checkauth without credentials was refused while a session
\* is stored
C2_Witness ==
    \E t \in Tasks :
        /\ InvalidCheckauth(task[t])
        /\ task[t].request.credentials = NoCredentials
        /\ task[t].pc = "done"
        /\ DOMAIN store # {}

\* C3: the session checkauth builds expires sessionDurationSeconds of the
\* settings after its issue time.
C3_ConfiguredDuration ==
    \A t \in Tasks :
        task[t].session # Absent =>
            task[t].session.expirationTimestamp
                = task[t].issueTime + settings.sessionDurationSeconds

\* the session id loadSession is called with
LoadedId(tk) == getRequestSessionInfo(tk.request).sessionId

\* C4: loadSession never returns a session that expires at or before the
\* current time: for such a record it issues the delete instead, and returns
\* absent only when the record is gone from the store; for an empty id and
\* for an id without a record it returns absent and none of its steps
\* changes the store.
C4_LoadSessionExpiry ==
    /\ [](\A t \in Tasks :
            task[t].pc = "loadSession_deleted" => LoadedId(task[t]) \notin DOMAIN store)
    /\ [][\A t \in Tasks :
            LET tk == task[t]
                tk1 == task'[t]
            IN Stepped(t) =>
                \* the session returned is not expired when it is returned
                /\ (tk.storedSession = Absent /\ tk1.storedSession # Absent) =>
                      /\ tk1.storedSession.expirationTimestamp > now
                      /\ tk1.storedSession.sessionId = LoadedId(tk)
                \* an expired record is deleted, not returned
                /\ (tk.pc = "loadSession_check" /\ tk.doc # Absent
                       /\ tk.doc.expirationTimestamp <= now) =>
                      /\ tk1.pc = "loadSession_delete"
                      /\ tk1.storedSession = Absent
                /\ tk.pc = "loadSession_delete" => LoadedId(tk) \notin DOMAIN store'
                /\ tk.pc = "loadSession_deleted" =>
                      /\ tk1.storedSession = Absent
                      /\ tk1.sessionValidation.error = NoSessionError
                      /\ LoadedId(tk) \notin DOMAIN store'
                \* an empty id
                /\ (tk.pc = "idle" /\ SessionRequest(tk1) /\ LoadedId(tk1) = EmptyString) =>
                      /\ tk1.pc = "done"
                      /\ tk1.storedSession = Absent
                      /\ store' = store
                \* an id without a record
                /\ (tk.pc = "loadSession_get" /\ LoadedId(tk) \notin DOMAIN store) =>
                      /\ tk1.doc = Absent
                      /\ store' = store
                /\ (tk.pc = "loadSession_check" /\ tk.doc = Absent) =>
                      /\ tk1.pc = "done"
                      /\ tk1.storedSession = Absent
                      /\ store' = store]_vars

\* C4 witness: loadSession read a record at the very second it expires,
\* deleted it and is about to return absent
C4_Witness ==
    \E t \in Tasks :
        /\ task[t].pc = "loadSession_deleted"
        /\ task[t].doc # Absent
        /\ task[t].doc.expirationTimestamp = now
        /\ LoadedId(task[t]) \notin DOMAIN store

\* loadSession returned a stored, non-expired session to the task
SessionLoaded(tk) == SessionRequest(tk) /\ tk.storedSession # Absent

\* C5: with csrfProtection enabled, a request for a stored, non-expired
\* session whose csrf token differs from the stored csrfToken is rejected
\* with failure / Invalid CSRF token.; with the stored csrfToken it passes
\* validation.
C5_CsrfEnforced ==
    \A t \in Tasks :
        LET tk == task[t]
        IN (settings.csrfProtection /\ SessionLoaded(tk)) =>
              IF tk.request.sessid # tk.storedSession.csrfToken
              THEN /\ tk.pc = "done"
                   /\ tk.result = << <<"failure">>, <<"Invalid CSRF token.">> >>
                   /\ ~tk.sessionValidation.success
              ELSE /\ tk.sessionValidation.success
                   /\ tk.result # << <<"failure">>, <<"Invalid CSRF token.">> >>

\* C5 witness: a request that carries another token than the stored one was
\* rejected
C5_Witness ==
    \E t \in Tasks :
        /\ settings.csrfProtection
        /\ SessionLoaded(task[t])
        /\ task[t].request.sessid \notin {EmptyString, task[t].storedSession.csrfToken}
        /\ task[t].result = << <<"failure">>, <<"Invalid CSRF token.">> >>

\* C6: with csrfProtection disabled, validation of a stored, non-expired
\* session succeeds whatever the csrf token is, an absent one included.
C6_CsrfNotEnforced ==
    \A t \in Tasks :
        LET tk == task[t]
        IN (~settings.csrfProtection /\ SessionLoaded(tk)) =>
              /\ tk.sessionValidation.success
              /\ tk.sessionValidation.error = << >>
              /\ tk.result \notin { << <<"failure">>, CsrfError >>,
                                    << <<"failure">>, NoSessionError >> }

\* C6 witness: a request without a token passed validation
C6_Witness ==
    \E t \in Tasks :
        /\ ~settings.csrfProtection
        /\ SessionLoaded(task[t])
        /\ task[t].request.sessid = EmptyString
        /\ task[t].sessionValidation.success
        /\ task[t].pc = "done"

\* C7: a checkauth does not invalidate or replace other sessions: every
\* session saved so far that has not yet expired is still in the store with
\* its csrfToken and expirationTimestamp, and validates with its token.
C7_LiveSessionsKept ==
    \A session \in issued :
        session.expirationTimestamp > now =>
            /\ session.sessionId \in DOMAIN store
            /\ store[session.sessionId] = session
            /\ Validates(session.sessionId, session.csrfToken)

\* C7 witness: a second checkauth has swept and saved while the session of
\* an earlier one is live
C7_Witness ==
    \E t \in Tasks : \E session \in issued :
        /\ task[t].pc = "done"
        /\ task[t].session # Absent
        /\ task[t].session # session
        /\ task[t].save = "done"
        /\ task[t].sweep.pc = "done"
        /\ session.expirationTimestamp > now
        /\ session.sessionId \in DOMAIN store

\* the records of st that expire at or before t
ExpiredAt(st, t) ==
    { id \in DOMAIN st : st[id].expirationTimestamp <= t }

\* C8: deleteExpiredSessions deletes the sessions that expire at or before
\* the time of its query and no other; it changes nothing when none
\* matches; and sweeps and lazy-expiry loads that delete the same records
\* concurrently all complete without error, the records being gone.
C8_SweepExpired ==
    /\ [](\A t \in Tasks :
            /\ ~task[t].threw
            /\ task[t].sweep.pc = "done" =>
                  /\ task[t].sweep.pending = {}
                  /\ task[t].sweep.docs \cap DOMAIN store = {})
    /\ [][\A t \in Tasks :
            LET sweep == task[t].sweep
                sweep1 == task'[t].sweep
            IN /\ (sweep.pc = "query" /\ sweep1 # sweep) =>
                     /\ sweep1.docs = ExpiredAt(store, sweep.queryTime)
                     /\ store' = store
                     /\ sweep1.docs = {} => sweep1.pc = "done"
               /\ (sweep.pc = "delete" /\ sweep1 # sweep) =>
                     /\ DOMAIN store \ DOMAIN store' \subseteq sweep.docs
                     /\ \A id \in DOMAIN store \ DOMAIN store' :
                            store[id].expirationTimestamp <= sweep.queryTime
                     /\ \A id \in DOMAIN store' : store'[id] = store[id]]_vars

\* C8 witness: two sweeps queried the same expired record before either
\* deleted it, and both have completed
C8_Witness ==
    \E t \in Tasks : \E u \in Tasks \ {t} :
        /\ task[t].sweep.pc = "done"
        /\ task[u].sweep.pc = "done"
        /\ task[t].sweep.docs \cap task[u].sweep.docs # {}
        /\ ~task[t].threw /\ ~task[u].threw

\* a sweep and a lazy-expiry load have both deleted the same expired record
\* and both have completed
SweepAndLoadDeleted ==
    \E t \in Tasks : \E u \in Tasks \ {t} :
        /\ task[t].sweep.pc = "done"
        /\ task[u].pc = "done"
        /\ task[u].doc # Absent
        /\ task[u].storedSession = Absent
        /\ LoadedId(task[u]) \in task[t].sweep.docs
        /\ ~task[t].threw /\ ~task[u].threw

\* the task has returned the success result of checkauth
CheckauthSucceeded(tk) ==
    /\ tk.pc = "done"
    /\ tk.session # Absent
    /\ ~tk.threw

\* C9: checkauth returns its success result only after the sweep and the
\* save have both completed: when the result is produced the new session is
\* in the store and a request with its id and token validates.
C9_SessionStoredAtReturn ==
    [][\A t \in Tasks :
        (Stepped(t) /\ CheckauthSucceeded(task'[t])) =>
            /\ task[t].sweep.pc = "done"
            /\ task[t].save = "done"
            /\ task[t].session.sessionId \in DOMAIN store'
            /\ Validates(task[t].session.sessionId, task[t].session.csrfToken)']_vars

\* C9 as amended: checkauth returns its success result only after the sweep
\* and the save have both completed; when the result is produced the new
\* session, unless it has expired in the meantime, is in the store and a
\* request with its id and token validates.
C9_JoinBeforeReturn ==
    [][\A t \in Tasks :
        (Stepped(t) /\ CheckauthSucceeded(task'[t])) =>
            /\ task[t].sweep.pc = "done"
            /\ task[t].save = "done"
            /\ task[t].session \in issued
            /\ task'[t].result[1] = <<"success">>
            /\ task[t].session.expirationTimestamp > now =>
                  /\ task[t].session.sessionId \in DOMAIN store'
                  /\ store'[task[t].session.sessionId] = task[t].session
                  /\ Validates(task[t].session.sessionId,
                               task[t].session.csrfToken)']_vars

\* C9 witness: two checkauth calls have returned success, one whose sweep
\* settled before its save and one whose save settled before its sweep
C9_Witness ==
    \E t \in Tasks : \E u \in Tasks \ {t} :
        /\ CheckauthSucceeded(task[t]) /\ task[t].firstDone = "sweep"
        /\ CheckauthSucceeded(task[u]) /\ task[u].firstDone = "save"
        /\ task[t].session.expirationTimestamp > now
        /\ task[t].session.sessionId \in DOMAIN store
        /\ task[u].session.sessionId \in DOMAIN store

StatusTokens == { <<"success">>, <<"failure">> }

\* C10: every result begins with the status token success or failure.
C10_FirstLineIsStatus ==
    \A t \in Tasks :
        (task[t].pc = "done" /\ ~task[t].threw) =>
            /\ Len(task[t].result) >= 1
            /\ task[t].result[1] \in StatusTokens

\* the task answered an init request of a validated session
InitAnswered(tk) ==
    /\ tk.pc = "done"
    /\ SessionRequest(tk)
    /\ tk.request.mode = "init"
    /\ tk.sessionValidation.success

\* C10 as amended: every result other than that of a validated init begins
\* with the status token success or failure; the result of a validated init
\* is the two lines zip=yes|no and file_limit=<bytes>, without a status line.
C10_FirstLineIsStatusExceptInit ==
    \A t \in Tasks :
        (task[t].pc = "done" /\ ~task[t].threw) =>
            IF InitAnswered(task[t])
            THEN /\ Len(task[t].result) = 2
                 /\ task[t].result[1] \in { <<"zip=", "yes">>, <<"zip=", "no">> }
                 /\ task[t].result[2][1] = "file_limit="
            ELSE /\ Len(task[t].result) >= 1
                 /\ task[t].result[1] \in StatusTokens

\* C10 witness: an import and an init have been answered
C10_Witness ==
    \E t \in Tasks :
        /\ task[t].pc = "done"
        /\ SessionRequest(task[t])
        /\ task[t].request.mode = "import"
        /\ task[t].sessionValidation.success
        /\ task[t].result = << <<"success">> >>

\* the first path segment of the file name is import_files
FirstSegmentIsImportFiles(filename) ==
    /\ Len(filename) >= 1
    /\ filename[1] = "import_files"
    /\ (Len(filename) = 1 \/ filename[2] = "/")

\* path is <timestamp>_<filename> for some timestamp
TimestampPrefixed(path, filename) ==
    /\ Len(path) = Len(filename) + 2
    /\ path[2] = "_"
    /\ SubSeq(path, 3, Len(path)) = filename

\* C11: in file mode the written path depends on type and file name shape:
\* a file name whose first path segment is import_files is written under its
\* own directory with its base name and no timestamp (the path is the file
\* name itself); any other catalog file name is written at the root as
\* <timestamp>_<filename>; any other report file name at the root as
\* <filename>.  So the catalog file name import_files2.xml, which only starts
\* with the characters import_files, gets the timestamp prefix.
C11_PathByFilenameShape ==
    \A t \in Tasks :
        LET tk == task[t]
        IN tk.upload # Absent =>
             IF FirstSegmentIsImportFiles(tk.request.filename)
             THEN tk.upload.remotePath = tk.request.filename
             ELSE IF tk.request.type = "catalog"
             THEN TimestampPrefixed(tk.upload.remotePath, tk.request.filename)
             ELSE tk.upload.remotePath = tk.request.filename

\* the task handles a file request of a supported type whose session validated
FileRequestValidated(tk) ==
    /\ SessionRequest(tk)
    /\ tk.request.mode = "file"
    /\ tk.sessionValidation # Absent
    /\ tk.sessionValidation.success

\* C12: in file mode with a valid session, for catalog and for report: an
\* empty file name yields failure / Filename is empty., a missing body (of a
\* named file) yields failure / Request body is undefined, and in both cases
\* nothing is handed to Cloud Storage and no object is written.
C12_FileArgumentsChecked ==
    \A t \in Tasks :
        LET tk == task[t]
        IN FileRequestValidated(tk) =>
             /\ tk.request.filename = << >> =>
                  /\ tk.pc = "done" /\ ~tk.threw
                  /\ tk.result = << <<"failure">>, <<"Filename is empty.">> >>
                  /\ tk.upload = Absent
                  /\ blobs = {}
             /\ tk.request.filename # << >> /\ ~tk.request.rawBody =>
                  /\ tk.pc = "done" /\ ~tk.threw
                  /\ tk.result = << <<"failure">>, <<"Request body is undefined">> >>
                  /\ tk.upload = Absent
                  /\ blobs = {}

\* a validated catalog file request that names a file but has no body has
\* been refused
C12_Witness ==
    \E t \in Tasks :
        /\ FileRequestValidated(task[t])
        /\ task[t].request.type = "catalog"
        /\ task[t].request.filename = <<"report1.xml">>
        /\ ~task[t].request.rawBody
        /\ task[t].result = << <<"failure">>, <<"Request body is undefined">> >>

\* the task handles (or has handled) a request whose type is not supported
UnsupportedType(tk) ==
    /\ tk.request # Absent
    /\ tk.request.type \notin {"catalog", "report"}

\* C13: a request whose type is neither catalog nor report fails with
\* 'Parameter type "<type>" is not supported. Supported parameters: catalog,
\* report' for every mode, checkauth with the configured credentials
\* included; the type is checked before anything else: no session is created,
\* swept or read, nothing is handed to Cloud Storage, and the step that
\* receives the request changes neither the store nor the buckets nor the
\* uuid source.
C13_UnsupportedTypeRefusedFirst ==
    /\ [](\A t \in Tasks :
            LET tk == task[t]
            IN UnsupportedType(tk) =>
                 /\ tk.pc = "done" /\ ~tk.threw
                 /\ tk.result =
                      << <<"failure">>,
                         <<"Parameter type \"", tk.request.type,
                           "\" is not supported. Supported parameters: catalog, report">> >>
                 /\ tk.session = Absent
                 /\ tk.sweep = NoSweep
                 /\ tk.save = "none"
                 /\ tk.doc = Absent
                 /\ tk.storedSession = Absent
                 /\ tk.sessionValidation = Absent
                 /\ tk.upload = Absent)
    /\ [][\A t \in Tasks :
            task[t].pc = "idle" /\ UnsupportedType(task'[t]) =>
                UNCHANGED <<store, blobs, nextUuid, issued>>]_vars

\* a checkauth for an unsupported type that carries the configured
\* credentials has been refused
C13_Witness ==
    \E t \in Tasks :
        /\ UnsupportedType(task[t])
        /\ task[t].request.mode = "checkauth"
        /\ task[t].request.credentials.username = settings.username
        /\ task[t].request.credentials.password = settings.password
        /\ task[t].pc = "done"
        /\ task[t].result[1] = <<"failure">>

(***************************************************************************)
(* Failing operations.  A Firestore call (get, set, query, delete) or the  *)
(* Cloud Storage write stream may reject.  Exchange1c has no try / catch:  *)
(* the rejection travels up the awaits of loadSession, checkauth           *)
(* (Promise.all rejects with the first rejection), file and fileReport,    *)
(* and leaves main.  The operations of a rejected checkauth that are still *)
(* outstanding are not followed further.                                   *)
(***************************************************************************)
\* the task awaits an operation of Firestore or Cloud Storage
AwaitsOperation(tk) ==
    \/ tk.pc \in {"loadSession_get", "loadSession_delete", "saveToStorage"}
    \/ tk.pc = "checkauth" /\ (tk.save = "set" \/ tk.sweep.pc \in {"query", "delete"})

\* the operation rejects: the promise main returned rejects with its error
OperationRejects(t) ==
    /\ AwaitsOperation(task[t])
    /\ task' = [task EXCEPT ![t] = Threw(task[t])]
    /\ UNCHANGED <<now, settings, store, blobs, nextUuid, workload, issued>>

NextFaults ==
    \/ Next
    \/ \E t \in Tasks : OperationRejects(t)

SpecFaults == Init /\ [][NextFaults]_vars

\* C14: every recoverable error, a failing session-store operation (load,
\* delete, save, sweep) or blob write included, is caught at the dispatcher
\* boundary and turned into a textual failure result: main never lets the
\* error escape, so every handler that has ended has produced a result.
C14_ErrorsBecomeFailureResults ==
    \A t \in Tasks :
        task[t].pc = "done" => ~task[t].threw /\ task[t].result # NoResult

\* t's saveSession is performed in this step
Saves(t) == task[t].pc = "checkauth" /\ task[t].save = "set" /\ task'[t].save = "done"

\* C15: sessionId and csrfToken are fresh on every successful authentication
\* and never reused: the session a checkauth saves has a session id and a
\* csrf token that no session saved before it has, and saveSession writes a
\* document that did not exist, so it never overwrites the record of an
\* earlier session.
C15_FreshSessionIds ==
    [][\A t \in Tasks :
          Saves(t) =>
            /\ task[t].session.sessionId \notin DOMAIN store
            /\ \A earlier \in issued :
                  /\ earlier.sessionId # task[t].session.sessionId
                  /\ earlier.csrfToken # task[t].session.csrfToken
            /\ \A id \in DOMAIN store : store'[id] = store[id]]_vars

\* a second checkauth of the behaviour has succeeded: its session and the
\* session of the first one have both been saved
C15_Witness ==
    \E t \in Tasks :
        /\ CheckauthSucceeded(task[t])
        /\ task[t].session \in issued
        /\ \E earlier \in issued :
              /\ earlier.sessionId \in Uuids
              /\ earlier.sessionId < task[t].session.sessionId

\* the session lookup of the task's request has returned absent
LookupAbsent(tk) ==
    /\ SessionRequest(tk)
    /\ tk.sessionValidation # Absent
    /\ tk.storedSession = Absent

\* C16: when the session lookup returns absent (empty id, no record, or
\* expired record) the validation is invalid with exactly the error text
\* "No active session found. Use 'checkauth' to start a new session."
C16_AbsentSessionMessage ==
    \A t \in Tasks :
        LookupAbsent(task[t]) =>
            /\ ~task[t].sessionValidation.success
            /\ task[t].sessionValidation.error =
                 <<"No active session found. Use 'checkauth' to start a new session.">>

\* the ids of the sessions that have been saved and are no longer stored
DeletedIds == { s.sessionId : s \in issued } \ DOMAIN store

\* t's loadSession receives the answer of doc(id).get() in this step
Reads(t) == task[t].pc = "loadSession_get" /\ task'[t].pc = "loadSession_check"

\* t's validateRequestSessionInfo returns in this step
ValidationReturns(t) ==
    task[t].sessionValidation = Absent /\ task'[t].sessionValidation # Absent

\* C17: no session is cached in the process: every validation reads the
\* session store again (what loadSession gets is what the collection holds
\* at that moment), so once a session record has been deleted, by a sweep
\* or by the lazy expiry of any request, a validation that reads afterwards
\* finds nothing and every validation that returns afterwards for that
\* session id fails, whichever handler serves it.
C17_NoSessionCache ==
    [][\A t \in Tasks :
          LET id == task'[t].request.cookie
          IN /\ Reads(t) =>
                  /\ id \in DOMAIN store => task'[t].doc = store[id]
                  /\ id \notin DOMAIN store => task'[t].doc = Absent
             /\ ValidationReturns(t) /\ id \in DeletedIds =>
                  /\ ~task'[t].sessionValidation.success
                  /\ task'[t].storedSession = Absent
                  /\ task'[t].pc = "done"
                  /\ task'[t].result[1] = <<"failure">>]_vars

\* a request came with the id of a session that had been saved and deleted
\* before its lookup read the store: the lookup found nothing and the
\* validation failed
C17_Witness ==
    \E t \in Tasks :
        /\ LookupAbsent(task[t])
        /\ task[t].request.cookie \in DeletedIds
        /\ task[t].doc = Absent
        /\ ~task[t].sessionValidation.success

\* t's deleteExpiredSessions has doc.ref.delete() calls outstanding
SweepDeleting(t) == task[t].pc = "checkauth" /\ task[t].sweep.pc = "delete"

\* the session of t's checkauth has been saved and has not expired
SavedAndLive(t) ==
    /\ task[t].session # Absent
    /\ task[t].save = "done"
    /\ task[t].session.expirationTimestamp > now

\* C18: the session a checkauth saves is never deleted by the sweep of the
\* same checkauth nor by the sweep of another checkauth running at the same
\* time, in any interleaving of the query, the deletes and the save, as long
\* as the session has not expired: no sweep has selected it, whether or not
\* it is saved yet, and once saved it is in the store.
C18_SweepSparesNewSession ==
    \A t \in Tasks :
        /\ task[t].session # Absent /\ task[t].session.expirationTimestamp > now =>
              \A u \in Tasks : task[t].session.sessionId \notin task[u].sweep.docs
        /\ SavedAndLive(t) =>
              /\ task[t].session.sessionId \in DOMAIN store
              /\ store[task[t].session.sessionId] = task[t].session

\* the session of a checkauth is saved and live while the sweep of another
\* checkauth, which started after that session was built, is deleting
C18_Witness ==
    \E t \in Tasks, u \in Tasks :
        /\ t # u
        /\ task[t].pc = "checkauth"
        /\ SavedAndLive(t)
        /\ SweepDeleting(u)
        /\ task[u].sweep.queryTime > task[t].issueTime

\* the values a request may have presented as its session id so far
PresentedIds ==
    {EmptyString} \cup { s.sessionId : s \in issued } \cup { s.csrfToken : s \in issued }

\* no lookup of id can return a session now: there is no record, or the
\* record has expired
NoLiveRecord(id) ==
    id \notin DOMAIN store \/ store[id].expirationTimestamp <= now

\* C19: once a session id has failed validation because its record was
\* absent or expired, it never passes validation again: an id whose lookup
\* returned absent has no live record, an id without a live record never
\* gets one (no operation re-creates a session under an id that was in use,
\* and a stored record, its expirationTimestamp included, is never changed),
\* and a validation passes only for an id with a live record.
C19_FailedIdStaysInvalid ==
    /\ [](\A t \in Tasks :
            LookupAbsent(task[t]) => NoLiveRecord(task[t].request.cookie))
    /\ [][/\ \A id \in PresentedIds : NoLiveRecord(id) => NoLiveRecord(id)'
          /\ \A id \in DOMAIN store \cap DOMAIN store' : store'[id] = store[id]
          /\ \A id \in DOMAIN store' \ DOMAIN store : id \notin PresentedIds
          /\ \A t \in Tasks :
                ValidationReturns(t) /\ task'[t].sessionValidation.success =>
                    ~NoLiveRecord(task'[t].request.cookie)]_vars

\* a request with the id of an expired session has been refused, and the
\* id stays without a record while a session saved under a later id is in
\* the store
C19_Witness ==
    \E t \in Tasks :
        /\ LookupAbsent(task[t])
        /\ task[t].request.cookie \in DeletedIds
        /\ \E s \in issued :
              /\ s.sessionId \in DOMAIN store
              /\ s.sessionId \in Uuids
              /\ s.sessionId > task[t].request.cookie

\* d is a stored document without an expirationTimestamp
LacksExpiration(d) == d # Absent /\ "expirationTimestamp" \notin DOMAIN d

\* C20: a stored session record without expirationTimestamp is treated as
\* expired by loadSession: the lookup deletes the record and returns absent,
\* so such a record never validates; the sweep, which selects only records
\* with expirationTimestamp at or before the time of its query, does not
\* select it: only a lookup removes it.
C20_RecordWithoutExpiration ==
    /\ [](\A t \in Tasks :
            LET tk == task[t]
            IN /\ \A id \in tk.sweep.docs :
                    id \in DOMAIN store => ~LacksExpiration(store[id])
               /\ LacksExpiration(tk.doc) =>
                    /\ tk.pc \in {"loadSession_check", "loadSession_delete",
                                  "loadSession_deleted", "done"}
                    /\ tk.storedSession = Absent
                    /\ tk.upload = Absent
                    /\ tk.pc \in {"loadSession_deleted", "done"} =>
                          tk.request.cookie \notin DOMAIN store
                    /\ tk.pc = "done" =>
                          /\ ~tk.threw
                          /\ ~tk.sessionValidation.success
                          /\ tk.result[1] = <<"failure">>)
    /\ [][\A id \in DOMAIN store \ DOMAIN store' :
            LacksExpiration(store[id]) =>
                \E t \in Tasks :
                    /\ task[t].pc = "loadSession_delete"
                    /\ task[t].request.cookie = id
                    /\ task'[t].pc = "loadSession_deleted"]_vars

\* a request with the id of the record without expirationTimestamp has been
\* refused and the record deleted by its lookup, after the sweep of a
\* checkauth had run over the collection and left the record in it
C20_Witness ==
    \E t \in Tasks :
        /\ LacksExpiration(task[t].doc)
        /\ task[t].pc = "done"
        /\ task[t].request.cookie \notin DOMAIN store
        /\ \E s \in issued : ~LacksExpiration(s)

====
